---- MODULE Spec2Model ----
(***************************************************************************)
(* Model of packages/core/src/libraries/jwt-customizer.ts                  *)
(* (createJwtCustomizerLibrary): the deployment of JWT customizer scripts  *)
(* to the cloud worker (deployJwtCustomizerScript,                         *)
(* undeployJwtCustomizerScript) and the local execution of a script        *)
(* (runScriptInLocalVm).                                                   *)
(***************************************************************************)
EXTENDS Integers, FiniteSets, Sequences, TLC

\* ------------------------------------------------------------------ bounds

\* Deploy/undeploy calls started in one behaviour.
MaxOps == 2

\* ------------------------------------------------------------- value sets

\* LogtoJwtTokenKey: the two customizer slots of the configuration store.
TokenKeys == {"jwt.accessToken", "jwt.clientCredentials"}

\* payload.useCase: 'test' | 'production'.
UseCases == {"production", "test"}

\* Script sources (payload.value.script).
Scripts == {"s1", "s2"}

\* The JavaScript value undefined, as the value of an own property.
Undefined == "undefined"

\* The two concurrent callers (requests) of the library.
Procs == {"p1", "p2"}

\* Placeholder for an argument an operation does not take.
NoArg == "-"

\* ------------------------------------------------------ documents (objects)

\* The empty object {}.
EmptyObject == [k \in {} |-> Undefined]

\* All objects over key set K whose own properties take values in V.
ObjectsOver(K, V) == UNION {[D -> V] : D \in SUBSET K}

\* getJwtCustomizers(): the configured customizers, TokenKey -> script.
StoreValues == ObjectsOver(TokenKeys, Scripts)

\* getJwtCustomizerScripts(jwtCustomizers): the deployment document of the
\* store, one entry per configured customizer, its production slot holding
\* the stored script.
getJwtCustomizerScripts(jwtCustomizers) ==
    [k \in DOMAIN jwtCustomizers |-> [u \in {"production"} |-> jwtCustomizers[k]]]

\* deepmerge of two entries (UseCase -> script | undefined): the values are
\* not mergeable objects, so every own property of the source, an undefined
\* one included, overwrites the target's.
MergeEntryShallowBug(target, source) == source

mergeEntry(target, source) ==
    [u \in (DOMAIN target) \cup (DOMAIN source) |->
        IF u \in DOMAIN source THEN source[u] ELSE target[u]]

\* deepmerge(target, source) on documents: keys of both; a key of the source
\* whose target value exists is merged recursively, otherwise copied.
deepmerge(target, source) ==
    [k \in (DOMAIN target) \cup (DOMAIN source) |->
        IF k \in DOMAIN source
        THEN IF k \in DOMAIN target
             THEN mergeEntry(target[k], source[k])
             ELSE source[k]
        ELSE target[k]]

\* The request body as sent by client.put: JSON.stringify drops the own
\* properties whose value is undefined and keeps the (now empty) object.
jsonBody(doc) ==
    [k \in DOMAIN doc |->
        [u \in {v \in DOMAIN doc[k] : doc[k][v] # Undefined} |-> doc[k][u]]]

\* newCustomizerScripts of deployJwtCustomizerScript.
deployPatch(key, useCase, script) ==
    [k \in {key} |-> [u \in {useCase} |-> script]]

\* newCustomizerScripts of undeployJwtCustomizerScript.
undeployPatchKeepsProduction(key) ==
    [k \in {key} |-> [u \in {"test"} |-> Undefined]]

undeployPatch(key) ==
    [k \in {key} |-> [u \in UseCases |-> Undefined]]

\* The value of slot (k, u) of a document, Undefined when there is none.
Slot(doc, k, u) ==
    IF k \in DOMAIN doc /\ u \in DOMAIN doc[k] THEN doc[k][u] ELSE Undefined

\* --------------------------------------------------------------- the state

VARIABLES
    isCloud,    \* EnvSet.values.isCloud
    store,      \* the configuration store's customizers (getJwtCustomizers)
    remote,     \* the worker deployment held by the cloud service
    procs,      \* each caller's position in deploy/undeploy and what it sent
    opsStarted, \* calls started so far
    round,      \* the store and remote when the running calls began, and the calls
    scope,      \* getCustomJwtClaims in the vm context of globalContext
    calls,      \* each request's position in runScriptInLocalVm
    callsStarted \* calls of runScriptInLocalVm started so far

deployVars == <<isCloud, store, remote, procs, opsStarted, round>>

vmVars == <<scope, calls, callsStarted>>

vars == <<isCloud, store, remote, procs, opsStarted, round, scope, calls, callsStarted>>

\* No deployed worker (after DELETE /api/services/custom-jwt/worker).
NoWorker == [exists |-> FALSE, doc |-> EmptyObject]

\* A deployed worker holding the body of the last PUT.
Worker(doc) == [exists |-> TRUE, doc |-> doc]

IdleProc ==
    [pc |-> "idle", kind |-> NoArg, key |-> NoArg, useCase |-> NoArg,
     script |-> NoArg, snap |-> EmptyObject, sent |-> "none",
     body |-> EmptyObject, err |-> "none"]

\* assert(jwtCustomizers[key], ...): the key has a stored customizer.
customizerExistsAlways(jwtCustomizers, key) == TRUE

customizerExists(jwtCustomizers, key) == key \in DOMAIN jwtCustomizers

\* Object.entries(jwtCustomizers).length === 1
isOnlyCustomizerNever(jwtCustomizers) == FALSE

isOnlyCustomizer(jwtCustomizers) == Cardinality(DOMAIN jwtCustomizers) = 1

\* What deployJwtCustomizerScript sends, given the customizers it read.
deployOutcome(jwtCustomizers, key, useCase, script) ==
    [sent |-> "put",
     body |-> jsonBody(deepmerge(getJwtCustomizerScripts(jwtCustomizers),
                                 deployPatch(key, useCase, script))),
     err  |-> "none"]

\* What undeployJwtCustomizerScript sends, given the customizers it read.
undeployOutcome(jwtCustomizers, key) ==
    IF ~customizerExists(jwtCustomizers, key)
    THEN [sent |-> "none", body |-> EmptyObject, err |-> "entity.not_exists"]
    ELSE IF isOnlyCustomizer(jwtCustomizers)
    THEN [sent |-> "delete", body |-> EmptyObject, err |-> "none"]
    ELSE [sent |-> "put",
          body |-> jsonBody(deepmerge(getJwtCustomizerScripts(jwtCustomizers),
                                      undeployPatch(key))),
          err  |-> "none"]

\* The worker after a request of the cloud client.
applyRequest(rem, out) ==
    CASE out.sent = "put"    -> Worker(out.body)
      [] out.sent = "delete" -> NoWorker
      [] OTHER               -> rem

\* The store after the caller has saved the change the call deployed: a
\* production script is upserted, a test script is not stored, an undeployed
\* customizer is deleted.
savedStore(st, kind, key, useCase, script) ==
    CASE kind = "deploy" /\ useCase = "production" ->
            [k \in (DOMAIN st) \cup {key} |-> IF k = key THEN script ELSE st[k]]
      [] kind = "undeploy" ->
            [k \in (DOMAIN st) \ {key} |-> st[k]]
      [] OTHER -> st

\* The worker that holds exactly the production scripts of the store: the
\* state after the store's customizers were deployed and saved one by one.
deployedFrom(cloud, st) ==
    IF cloud /\ st # EmptyObject
    THEN Worker(jsonBody(getJwtCustomizerScripts(st)))
    ELSE NoWorker

InitDeploy ==
    /\ isCloud \in BOOLEAN
    /\ store \in StoreValues
    /\ remote = deployedFrom(isCloud, store)
    /\ procs = [p \in Procs |-> IdleProc]
    /\ opsStarted = 0
    /\ round = [s0 |-> EmptyObject, r0 |-> NoWorker, ops |-> <<>>]

\* The running calls and the state they began from: a call that starts while
\* no other is running opens a new round.
startRound(op) ==
    IF \A q \in Procs : procs[q].pc = "idle"
    THEN [s0 |-> store, r0 |-> remote, ops |-> <<op>>]
    ELSE [round EXCEPT !.ops = Append(@, op)]

\* A caller enters deployJwtCustomizerScript; outside the cloud the function
\* returns at once.
StartDeploy(p) ==
    /\ procs[p].pc = "idle"
    /\ opsStarted < MaxOps
    /\ \E key \in TokenKeys, useCase \in UseCases, script \in Scripts :
          /\ procs' = [procs EXCEPT ![p] =
                [IdleProc EXCEPT !.pc = IF isCloud THEN "read" ELSE "save",
                                 !.kind = "deploy", !.key = key,
                                 !.useCase = useCase, !.script = script]]
          /\ round' = startRound([kind |-> "deploy", key |-> key,
                                  useCase |-> useCase, script |-> script])
    /\ opsStarted' = opsStarted + 1
    /\ UNCHANGED <<isCloud, store, remote>>
    /\ UNCHANGED vmVars

\* A caller enters undeployJwtCustomizerScript; outside the cloud the
\* function returns at once.
StartUndeploy(p) ==
    /\ procs[p].pc = "idle"
    /\ opsStarted < MaxOps
    /\ \E key \in TokenKeys :
          /\ procs' = [procs EXCEPT ![p] =
                [IdleProc EXCEPT !.pc = IF isCloud THEN "read" ELSE "save",
                                 !.kind = "undeploy", !.key = key]]
          /\ round' = startRound([kind |-> "undeploy", key |-> key,
                                  useCase |-> NoArg, script |-> NoArg])
    /\ opsStarted' = opsStarted + 1
    /\ UNCHANGED <<isCloud, store, remote>>
    /\ UNCHANGED vmVars

\* await Promise.all([cloudConnection.getClient(), getJwtCustomizers()])
ReadStore(p) ==
    /\ procs[p].pc = "read"
    /\ procs' = [procs EXCEPT ![p].pc = "send", ![p].snap = store]
    /\ UNCHANGED <<isCloud, store, remote, opsStarted, round>>
    /\ UNCHANGED vmVars

\* deployJwtCustomizerScript: merge the patch into the document of the
\* customizers read and PUT it.
SendDeploy(p) ==
    /\ procs[p].pc = "send"
    /\ procs[p].kind = "deploy"
    /\ LET out == deployOutcome(procs[p].snap, procs[p].key,
                                procs[p].useCase, procs[p].script)
       IN  /\ procs' = [procs EXCEPT ![p].pc = "save", ![p].sent = out.sent,
                                     ![p].body = out.body, ![p].err = out.err]
           /\ remote' = applyRequest(remote, out)
    /\ UNCHANGED <<isCloud, store, opsStarted, round>>
    /\ UNCHANGED vmVars

\* undeployJwtCustomizerScript: fail on a missing customizer, DELETE the
\* worker when the customizer is the only one, otherwise PUT the document
\* merged with the removal patch.
SendUndeploy(p) ==
    /\ procs[p].pc = "send"
    /\ procs[p].kind = "undeploy"
    /\ LET out == undeployOutcome(procs[p].snap, procs[p].key)
       IN  /\ procs' = [procs EXCEPT
                    ![p].pc = IF out.err = "none" THEN "save" ELSE "failed",
                    ![p].sent = out.sent, ![p].body = out.body,
                    ![p].err = out.err]
           /\ remote' = applyRequest(remote, out)
    /\ UNCHANGED <<isCloud, store, opsStarted, round>>
    /\ UNCHANGED vmVars

\* The caller saves the deployed change to the database after the call
\* returned.
Save(p) ==
    /\ procs[p].pc = "save"
    /\ store' = savedStore(store, procs[p].kind, procs[p].key,
                           procs[p].useCase, procs[p].script)
    /\ procs' = [procs EXCEPT ![p] = IdleProc]
    /\ UNCHANGED <<isCloud, remote, opsStarted, round>>
    /\ UNCHANGED vmVars

\* The RequestError propagates to the caller, which saves nothing.
ReturnError(p) ==
    /\ procs[p].pc = "failed"
    /\ procs' = [procs EXCEPT ![p] = IdleProc]
    /\ UNCHANGED <<isCloud, store, remote, opsStarted, round>>
    /\ UNCHANGED vmVars

\* --------------------------------------------------- runScriptInLocalVm

\* Calls of runScriptInLocalVm started in one behaviour.
MaxCalls == 2

\* { timeout: 3000 } of the second runInNewContext, in milliseconds.
Timeout == 3000

\* The time a slow phase of a script takes: longer than the timeout.
SlowMs == Timeout + 1000

\* The statuses of the ResponseError.
StatusInvalidInput == 400
StatusUnprocessable == 422
StatusInternal == 500

\* The requests being served; a request suspends only at the await.
Calls == {"c1", "c2"}

\* data.tokenType; LogtoJwtTokenKeyType.AccessToken is "accessToken".
AccessToken == "accessToken"
TokenTypes == {AccessToken, "clientCredentials"}

\* The realm an error object was created in: the host's, or a vm context's
\* (an error of a vm context is no instance of the host's classes).
Realms == {"host", "vm"}

NoError == [name |-> "none", realm |-> "none"]
Err(name, realm) == [name |-> name, realm |-> realm]

\* A script, by what it does.  decl: how it declares getCustomJwtClaims
\* ("lexical": const/let of a function, "function": a function declaration,
\* "value": const/let of a value that is no function, "none": not at all);
\* evalB: its top-level code ("ok", "syntax": does not compile, "throw",
\* "slow": runs SlowMs, "loop": never ends); syncB: the entry point up to
\* its first await ("ok", "throw", "loop"); asyncB: the rest of the entry
\* point ("ok", "reject", "slow": resolves after SlowMs, "never"); ret: the
\* value it resolves to ("record" or "other"); throws: what it throws.
GoodScript ==
    [id |-> "good", decl |-> "lexical", evalB |-> "ok", syncB |-> "ok",
     asyncB |-> "ok", ret |-> "record", throws |-> NoError]

ScriptCatalog ==
    { GoodScript,
      [GoodScript EXCEPT !.id = "goodFn", !.decl = "function"],
      [GoodScript EXCEPT !.id = "noEntry", !.decl = "none"],
      [GoodScript EXCEPT !.id = "notCallable", !.decl = "value"],
      [GoodScript EXCEPT !.id = "syntax", !.evalB = "syntax"],
      [GoodScript EXCEPT !.id = "evalThrow", !.decl = "none", !.evalB = "throw",
                         !.throws = Err("string", "vm")],
      [GoodScript EXCEPT !.id = "evalSlow", !.decl = "function", !.evalB = "slow"],
      [GoodScript EXCEPT !.id = "evalLoop", !.decl = "none", !.evalB = "loop"],
      [GoodScript EXCEPT !.id = "syncThrow", !.decl = "function", !.syncB = "throw",
                         !.throws = Err("TypeError", "vm")],
      [GoodScript EXCEPT !.id = "syncLoop", !.decl = "function", !.syncB = "loop"],
      [GoodScript EXCEPT !.id = "asyncReject", !.decl = "function",
                         !.asyncB = "reject", !.throws = Err("TypeError", "host")],
      [GoodScript EXCEPT !.id = "asyncSlow", !.decl = "function", !.asyncB = "slow"],
      [GoodScript EXCEPT !.id = "asyncNever", !.decl = "function", !.asyncB = "never"],
      [GoodScript EXCEPT !.id = "badShape", !.decl = "function", !.ret = "other"] }

ScriptOf(id) == CHOOSE sc \in ScriptCatalog : sc.id = id

\* data: CustomJwtFetcher.  The context is there or not, whatever the token
\* type.
DataValues ==
    { [script |-> sc.id, tokenType |-> tt, token |-> "token",
       environmentVariables |-> "env"] : sc \in ScriptCatalog, tt \in TokenTypes }
    \cup
    { [script |-> sc.id, tokenType |-> tt, token |-> "token",
       context |-> "ctx", environmentVariables |-> "env"] :
          sc \in ScriptCatalog, tt \in TokenTypes }

\* pick(object, ...keys) of @silverhand/essentials.
pick(object, keys) == [k \in keys \cap DOMAIN object |-> object[k]]

\* const payload = data.tokenType === AccessToken ? pick(...) : pick(...)
buildPayloadAlwaysContext(data) ==
    pick(data, {"token", "context", "environmentVariables"})

buildPayload(data) ==
    IF data.tokenType = AccessToken
    THEN pick(data, {"token", "context", "environmentVariables"})
    ELSE pick(data, {"token", "environmentVariables"})

\* The binding of getCustomJwtClaims in a vm context: bound "none", or
\* "lexical" (const/let), or "global" (a function declaration), holding the
\* function of script `owner` or, when not callable, a plain value.
FreshScope == [bound |-> "none", owner |-> NoArg, callable |-> FALSE]

NoOutcome ==
    [kind |-> "none", claimsOf |-> NoArg, status |-> 0, cause |-> "none",
     error |-> NoError]

IdleCall ==
    [pc |-> "idle", data |-> [script |-> NoArg], payload |-> EmptyObject,
     sawScope |-> FreshScope, fnOwner |-> NoArg, invoked |-> FALSE,
     elapsed |-> 0, outcome |-> NoOutcome]

\* status: error instanceof SyntaxError || error instanceof TypeError ? 422 : 500,
\* and 400 for a ZodError.
errorStatusZod422(error) ==
    IF error.name \in {"ZodError", "SyntaxError", "TypeError"} /\ error.realm = "host"
    THEN StatusUnprocessable
    ELSE StatusInternal

errorStatus(error) ==
    IF error.name = "ZodError" /\ error.realm = "host"
    THEN StatusInvalidInput
    ELSE IF error.name \in {"SyntaxError", "TypeError"} /\ error.realm = "host"
    THEN StatusUnprocessable
    ELSE StatusInternal

\* The catch block: every thrown value becomes a ResponseError.
Failure(cause, error) ==
    [kind |-> "error", claimsOf |-> NoArg, status |-> errorStatus(error),
     cause |-> cause, error |-> error]

\* The context the script runs in.  vm.createContext returns an object that
\* is already contextified as it is, so runInNewContext(code, globalContext)
\* makes a context of the frozen globalContext on the first call and runs
\* every later call in that same context.
scriptContext(sc) == sc

\* A declaration of the script clashes with a binding of the context.
redeclared(sc, script) ==
    \/ script.decl \in {"lexical", "value"} /\ sc.bound # "none"
    \/ script.decl = "function" /\ sc.bound = "lexical"

\* The binding after the script's declarations.
declare(sc, script) ==
    CASE script.decl = "lexical"  ->
            [bound |-> "lexical", owner |-> script.id, callable |-> TRUE]
      [] script.decl = "value"    ->
            [bound |-> "lexical", owner |-> script.id, callable |-> FALSE]
      [] script.decl = "function" ->
            [bound |-> "global", owner |-> script.id, callable |-> TRUE]
      [] OTHER -> sc

\* runInNewContext(data.script + ';getCustomJwtClaims;', globalContext): the
\* context afterwards, the time taken, and what came of it: "value" (the
\* binding read by the trailing expression), "throw" or "hang".
evalScript(sc, script, realm) ==
    IF script.evalB = "syntax"
    THEN [scope |-> sc, took |-> 0, end |-> "throw", cause |-> "syntax",
          error |-> Err("SyntaxError", realm)]
    ELSE IF redeclared(sc, script)
    THEN [scope |-> sc, took |-> 0, end |-> "throw", cause |-> "redeclared",
          error |-> Err("SyntaxError", realm)]
    ELSE LET after == declare(sc, script)
         IN  CASE script.evalB = "loop" ->
                    [scope |-> after, took |-> 0, end |-> "hang",
                     cause |-> "none", error |-> NoError]
               [] script.evalB = "throw" ->
                    [scope |-> after, took |-> 0, end |-> "throw",
                     cause |-> "thrown", error |-> script.throws]
               [] after.bound = "none" ->
                    [scope |-> after, took |-> 0, end |-> "throw",
                     cause |-> "reference", error |-> Err("ReferenceError", "vm")]
               [] OTHER ->
                    [scope |-> after,
                     took |-> IF script.evalB = "slow" THEN SlowMs ELSE 0,
                     end |-> "value", cause |-> "none", error |-> NoError]

\* typeof getCustomJwtClaims !== 'function'
notAFunction(binding) == ~binding.callable

\* The second runInNewContext, { timeout: 3000 }: only the entry point's run
\* up to its first await is under the timeout.
timedOut(fn) == fn.syncB = "loop"

\* A request enters runScriptInLocalVm and runs to its await (or to its
\* catch block): the script is evaluated, the entry point is read and
\* checked, the payload is picked and the entry point is called.
Invoke(c) ==
    /\ calls[c].pc = "idle"
    /\ \A d \in Calls : calls[d].pc # "hung"
    /\ callsStarted < MaxCalls
    /\ callsStarted' = callsStarted + 1
    /\ \E data \in DataValues, realm \in Realms :
          LET script == ScriptOf(data.script)
              before == scriptContext(scope)
              ev     == evalScript(before, script, realm)
              base   == [IdleCall EXCEPT !.data = data, !.sawScope = before,
                                         !.elapsed = ev.took]
          IN  \* the realm is that of the SyntaxError, when there is one
              /\ realm = "host" => script.evalB = "syntax" \/ redeclared(before, script)
              /\ scope' = ev.scope
              /\ calls' = [calls EXCEPT ![c] =
                    CASE ev.end = "hang" -> [base EXCEPT !.pc = "hung"]
                      [] ev.end = "throw" ->
                            [base EXCEPT !.pc = "done",
                                         !.outcome = Failure(ev.cause, ev.error)]
                      [] notAFunction(ev.scope) ->
                            [base EXCEPT !.pc = "done",
                                         !.outcome = Failure("notCallable",
                                                        Err("TypeError", "host"))]
                      [] timedOut(ScriptOf(ev.scope.owner)) ->
                            [base EXCEPT !.pc = "done",
                                         !.payload = buildPayload(data),
                                         !.fnOwner = ev.scope.owner,
                                         !.invoked = TRUE,
                                         !.elapsed = ev.took + Timeout,
                                         !.outcome = Failure("timeout",
                                                        Err("Error", "host"))]
                      [] OTHER ->
                            [base EXCEPT !.pc = "await",
                                         !.payload = buildPayload(data),
                                         !.fnOwner = ev.scope.owner,
                                         !.invoked = TRUE]]
    /\ UNCHANGED deployVars

\* z.record(z.unknown()).parse(result)
parseResult(fn) ==
    IF fn.ret = "record"
    THEN [kind |-> "claims", claimsOf |-> fn.id, status |-> 0, cause |-> "none",
          error |-> NoError]
    ELSE Failure("shape", Err("ZodError", "host"))

\* The promise of the entry point settles and the awaiting request goes on:
\* to the result's validation, or to the catch block.
Settle(c) ==
    /\ calls[c].pc = "await"
    /\ \A d \in Calls : calls[d].pc # "hung"
    /\ LET fn == ScriptOf(calls[c].fnOwner)
       IN  /\ fn.asyncB # "never"
           /\ calls' = [calls EXCEPT
                ![c].pc = "done",
                ![c].elapsed = @ + (IF fn.asyncB = "slow" /\ fn.syncB = "ok"
                                    THEN SlowMs ELSE 0),
                ![c].outcome =
                    IF fn.syncB = "throw" \/ fn.asyncB = "reject"
                    THEN Failure("thrown", fn.throws)
                    ELSE parseResult(fn)]
    /\ UNCHANGED <<scope, callsStarted>>
    /\ UNCHANGED deployVars

\* The caller has the claims or the ResponseError.
Return(c) ==
    /\ calls[c].pc = "done"
    /\ \A d \in Calls : calls[d].pc # "hung"
    /\ calls' = [calls EXCEPT ![c] = IdleCall]
    /\ UNCHANGED <<scope, callsStarted>>
    /\ UNCHANGED deployVars

InitVm ==
    /\ scope = FreshScope
    /\ calls = [c \in Calls |-> IdleCall]
    /\ callsStarted = 0

Init == InitDeploy /\ InitVm

Next ==
    \E p \in Procs :
        \/ StartDeploy(p)
        \/ StartUndeploy(p)
        \/ ReadStore(p)
        \/ SendDeploy(p)
        \/ SendUndeploy(p)
        \/ Save(p)
        \/ ReturnError(p)

Spec == Init /\ [][Next]_vars

VmNext ==
    \E c \in Calls :
        \/ Invoke(c)
        \/ Settle(c)
        \/ Return(c)

\* The library as constructed, before any deployment.
VmInit ==
    /\ isCloud = FALSE
    /\ store = EmptyObject
    /\ remote = NoWorker
    /\ procs = [p \in Procs |-> IdleProc]
    /\ opsStarted = 0
    /\ round = [s0 |-> EmptyObject, r0 |-> NoWorker, ops |-> <<>>]
    /\ InitVm

VmSpec == VmInit /\ [][VmNext]_vars

\* ------------------------------------------------- claims: the deployment

\* The calls that, in the cloud, have sent their request (or failed) and
\* whose caller has not yet gone on; outside the cloud both functions
\* return at once and send nothing.
Sent(p) == procs[p].pc \in {"save", "failed"} /\ isCloud

\* The document a call read from the configuration store, as a request body.
CurrentDoc(p) == jsonBody(getJwtCustomizerScripts(procs[p].snap))

\* Every entry of a key other than `key` is the same in both documents.
OthersUnchanged(body, cur, key) ==
    \A k \in TokenKeys \ {key} :
        /\ (k \in DOMAIN body) <=> (k \in DOMAIN cur)
        /\ k \in DOMAIN body => body[k] = cur[k]

\* C1: the document deployJwtCustomizerScript pushes (in the cloud) has exactly the script
\* in slot (key, useCase), and every other slot, the sibling use case of the
\* same key and the slots of the other keys, is as in the document read from
\* the store.
C1_UpsertPreservesOtherSlots ==
    \A p \in Procs :
        (Sent(p) /\ procs[p].kind = "deploy") =>
            /\ procs[p].sent = "put"
            /\ Slot(procs[p].body, procs[p].key, procs[p].useCase) = procs[p].script
            /\ \A u \in UseCases \ {procs[p].useCase} :
                  /\ Slot(procs[p].body, procs[p].key, u)
                        = Slot(CurrentDoc(p), procs[p].key, u)
                  /\ (u \in DOMAIN procs[p].body[procs[p].key])
                        <=> (Slot(CurrentDoc(p), procs[p].key, u) # Undefined)
            /\ OthersUnchanged(procs[p].body, CurrentDoc(p), procs[p].key)

\* A test script was deployed for a key whose production script is stored,
\* beside another configured key.
C1_Witness ==
    \E p \in Procs :
        /\ Sent(p) /\ procs[p].kind = "deploy" /\ procs[p].useCase = "test"
        /\ DOMAIN procs[p].snap = TokenKeys
        /\ procs[p].script # procs[p].snap[procs[p].key]

\* C2: in the cloud, undeploying a configured key deletes the worker (and pushes nothing)
\* when it is the only customizer of the store read, and pushes a merged
\* document (and deletes nothing) when several are configured.
C2_TeardownIffLast ==
    \A p \in Procs :
        (Sent(p) /\ procs[p].kind = "undeploy"
            /\ procs[p].key \in DOMAIN procs[p].snap) =>
            /\ Cardinality(DOMAIN procs[p].snap) = 1 => procs[p].sent = "delete"
            /\ Cardinality(DOMAIN procs[p].snap) > 1 => procs[p].sent = "put"

\* One caller tore the worker down for the last customizer.
C2_Witness ==
    \E p \in Procs :
        /\ Sent(p) /\ procs[p].kind = "undeploy"
        /\ DOMAIN procs[p].snap = {procs[p].key}
        /\ procs[p].sent = "delete"

C4_NotFoundSendsNothing ==
    [][\A p \in Procs :
          (/\ procs[p].pc = "send" /\ procs[p].kind = "undeploy"
           /\ procs[p].key \notin DOMAIN procs[p].snap
           /\ procs'[p].pc # "send") =>
              /\ procs'[p].pc = "failed"
              /\ procs'[p].err = "entity.not_exists"
              /\ procs'[p].sent = "none"
              /\ remote' = remote]_vars

\* An undeploy of an unconfigured key failed while another customizer is
\* configured and deployed.
C4_Witness ==
    \E p \in Procs :
        /\ procs[p].pc = "failed" /\ procs[p].err = "entity.not_exists"
        /\ procs[p].snap # EmptyObject
        /\ remote.exists

\* One call run alone from store st and worker rem: read, send, save.
runOp(st, rem, op) ==
    LET out == IF ~isCloud
               THEN [sent |-> "none", body |-> EmptyObject, err |-> "none"]
               ELSE IF op.kind = "deploy"
               THEN deployOutcome(st, op.key, op.useCase, op.script)
               ELSE undeployOutcome(st, op.key)
    IN  [store  |-> IF out.err = "none"
                    THEN savedStore(st, op.kind, op.key, op.useCase, op.script)
                    ELSE st,
         remote |-> applyRequest(rem, out)]

\* Two calls run one after the other.
runBoth(st, rem, first, second) ==
    LET mid == runOp(st, rem, first)
    IN  runOp(mid.store, mid.remote, second)

\* C5: when two overlapping deploy/undeploy calls have both returned, the
\* worker equals the result of running the two calls one after the other in
\* one of the two orders.
C5_Serializable ==
    (/\ \A p \in Procs : procs[p].pc = "idle"
     /\ Len(round.ops) = 2) =>
        \/ remote = runBoth(round.s0, round.r0, round.ops[1], round.ops[2]).remote
        \/ remote = runBoth(round.s0, round.r0, round.ops[2], round.ops[1]).remote

\* ------------------------------------------ claims: runScriptInLocalVm

\* The requests that have run their script.
Started(c) == calls[c].pc # "idle"

\* C6: the 3000 ms deadline bounds the whole run: no request is held by a
\* script for ever, none returns claims after more than the timeout, and a
\* run that took longer than the timeout ended in the timeout failure.
C6_DeadlineBoundsWholeRun ==
    \A c \in Calls :
        /\ calls[c].pc # "hung"
        /\ (calls[c].pc = "done" /\ calls[c].outcome.kind = "claims") =>
              calls[c].elapsed <= Timeout
        /\ (calls[c].pc = "done" /\ calls[c].elapsed > Timeout) =>
              calls[c].outcome.cause = "timeout"

\* C7: the payload handed to the entry point has a context only for the
\* access-token type; for any other token type it has exactly token and
\* environmentVariables, whatever the input data held.
C7_ContextOnlyForAccessToken ==
    \A c \in Calls :
        calls[c].invoked =>
            /\ "context" \in DOMAIN calls[c].payload
                  => calls[c].data.tokenType = AccessToken
            /\ calls[c].data.tokenType # AccessToken
                  => DOMAIN calls[c].payload = {"token", "environmentVariables"}
            /\ \A k \in DOMAIN calls[c].payload :
                  calls[c].payload[k] = calls[c].data[k]

\* The entry point was called for a client-credentials token whose input
\* data held a context.
C7_Witness ==
    \E c \in Calls :
        /\ calls[c].invoked
        /\ calls[c].data.tokenType # AccessToken
        /\ "context" \in DOMAIN calls[c].data

\* C8: a script that defines no callable getCustomJwtClaims of its own
\* always fails, and no entry point is called for it, whatever scripts ran
\* in earlier calls.
C8_MissingEntryPointFails ==
    \A c \in Calls :
        (/\ calls[c].pc \in {"await", "done"}
         /\ ScriptOf(calls[c].data.script).decl \in {"none", "value"}) =>
            /\ ~calls[c].invoked
            /\ calls[c].pc = "done"
            /\ calls[c].outcome.kind = "error"

C10_FreshScopePerCall ==
    \A c \in Calls :
        Started(c) =>
            /\ calls[c].sawScope = FreshScope
            /\ calls[c].invoked => calls[c].fnOwner = calls[c].data.script


\* ------------------------------------- claims: removal of all customizers

\* The running round was made of undeploy calls only, and began with
\* customizers in the store.
OnlyRemovals ==
    /\ round.ops # <<>>
    /\ \A i \in 1..Len(round.ops) : round.ops[i].kind = "undeploy"
    /\ round.s0 # EmptyObject

\* C11: when undeploy calls, each followed by its caller's removal of the key
\* from the store, have together removed every configured customizer, one
\* of them has torn the worker down: no such run ends with an empty store
\* and the worker still deployed.
C11_NoOrphanedWorker ==
    (/\ \A p \in Procs : procs[p].pc = "idle"
     /\ OnlyRemovals
     /\ store = EmptyObject) =>
        ~remote.exists

====
